---- MODULE Spec2Model ----
(***************************************************************************)
(* Claim extraction from a time-stamped transcript (claim_extract.py) and  *)
(* the transcript writer that feeds it (download_and_transcribe.py).       *)
(*                                                                         *)
(* Python str values are TLA+ strings; a character is a string of length   *)
(* one.  A Python tuple or list is a TLA+ sequence.  An optional argument  *)
(* (None or a value) is a sequence of length zero or one.                  *)
(***************************************************************************)
EXTENDS Integers, Sequences, FiniteSets, TLC

VARIABLES
    pc,              \* position of the driver / of the function under study
    file,            \* transcript.txt: the sequence of its lines
    idx,             \* items of the current for loop already consumed
    loaded,          \* load_transcript's local list `segments`
    segments,        \* merge_segments' parameter `segments`
    merged,          \* merge_segments' local list `merged`
    remerged,        \* result of a second application of merge_segments
    docs,            \* the spans the splitter returned, one list per segment
    sentences,       \* split_sentences' result
    entity_results,  \* extract_entities' result
    allowed_labels,  \* filter_claims' optional argument
    keyword_pattern, \* filter_claims' optional argument
    claims,          \* filter_claims' result
    final_claims,    \* the driver's final list
    sent,            \* is_strong_claim's argument
    strong           \* is_strong_claim's result

vars == <<pc, file, idx, loaded, segments, merged, remerged, docs, sentences,
          entity_results, allowed_labels, keyword_pattern, claims,
          final_claims, sent, strong>>

---------------------------------------------------------------------------
(* Bounds of the model.                                                    *)

MaxSegs == 3     \* segments given to merge_segments
MaxLines == 2    \* lines of transcript.txt
MaxTagged == 2   \* tagged sentences given to filter_claims
MaxWords == 2    \* phrases making up a sentence given to is_strong_claim

SeqsUpTo(S, n) == UNION {[1..k -> S] : k \in 0..n}

---------------------------------------------------------------------------
(* Python str primitives.                                                  *)

LowerAlpha == "abcdefghijklmnopqrstuvwxyz"
UpperAlpha == "ABCDEFGHIJKLMNOPQRSTUVWXYZ"
DigitChars == "0123456789"

CharAt(s, i) == SubSeq(s, i, i)

\* 1-based position of character c in alphabet string a, 0 when absent.
PosIn(c, a) ==
    IF \E i \in 1..Len(a) : CharAt(a, i) = c
    THEN CHOOSE i \in 1..Len(a) : CharAt(a, i) = c
    ELSE 0

Chars(a) == {CharAt(a, i) : i \in 1..Len(a)}

LowerSet == Chars(LowerAlpha)
UpperSet == Chars(UpperAlpha)
DigitSet == Chars(DigitChars)

\* str.islower() of one character (ASCII).
islower(c) == c \in LowerSet

\* s.find(c, i): first position >= i holding character c, 0 when none.
RECURSIVE FindFrom(_, _, _)
FindFrom(s, c, i) ==
    IF i > Len(s) THEN 0
    ELSE IF CharAt(s, i) = c THEN i
    ELSE FindFrom(s, c, i + 1)

\* s.split(c, 1): one piece when c is absent, else the parts around the
\* first c.
split1(s, c) ==
    LET i == FindFrom(s, c, 1)
    IN  IF i = 0 THEN <<s>>
        ELSE <<SubSeq(s, 1, i - 1), SubSeq(s, i + 1, Len(s))>>

---------------------------------------------------------------------------
(* merge_segments.                                                         *)

\* Faulty variants of MergeStep.  The fold keeps the current segment's range
\* instead of extending the previous one.
MergeStepCurrentRange(m, seg) ==
    IF seg[2] # "" /\ islower(CharAt(seg[2], 1)) /\ m # <<>>
    THEN IF Len(split1(m[Len(m)][1], "-")) # 2 \/ Len(split1(seg[1], "-")) < 2
         THEN [raised |-> TRUE, merged |-> m]
         ELSE [raised |-> FALSE,
               merged |-> [m EXCEPT ![Len(m)] =
                               <<seg[1], m[Len(m)][2] \o " " \o seg[2]>>]]
    ELSE [raised |-> FALSE, merged |-> Append(m, seg)]

\* The fold keeps the previous range, never taking the current end.
MergeStepKeepsPrevEnd(m, seg) ==
    IF seg[2] # "" /\ islower(CharAt(seg[2], 1)) /\ m # <<>>
    THEN IF Len(split1(m[Len(m)][1], "-")) # 2 \/ Len(split1(seg[1], "-")) < 2
         THEN [raised |-> TRUE, merged |-> m]
         ELSE [raised |-> FALSE,
               merged |-> [m EXCEPT ![Len(m)] =
                               <<m[Len(m)][1], m[Len(m)][2] \o " " \o seg[2]>>]]
    ELSE [raised |-> FALSE, merged |-> Append(m, seg)]

\* The fold goes into the first output segment (merged[0]) instead of the
\* last one.
MergeStepFoldsFirst(m, seg) ==
    IF seg[2] # "" /\ islower(CharAt(seg[2], 1)) /\ m # <<>>
    THEN IF Len(split1(m[1][1], "-")) # 2 \/ Len(split1(seg[1], "-")) < 2
         THEN [raised |-> TRUE, merged |-> m]
         ELSE [raised |-> FALSE,
               merged |-> [m EXCEPT ![1] =
                               <<split1(m[1][1], "-")[1] \o "-"
                                     \o split1(seg[1], "-")[2],
                                 m[1][2] \o " " \o seg[2]>>]]
    ELSE [raised |-> FALSE, merged |-> Append(m, seg)]

\* The fold puts the current text before the previous text.
MergeStepPrepends(m, seg) ==
    IF seg[2] # "" /\ islower(CharAt(seg[2], 1)) /\ m # <<>>
    THEN IF Len(split1(m[Len(m)][1], "-")) # 2 \/ Len(split1(seg[1], "-")) < 2
         THEN [raised |-> TRUE, merged |-> m]
         ELSE [raised |-> FALSE,
               merged |-> [m EXCEPT ![Len(m)] =
                               <<split1(m[Len(m)][1], "-")[1] \o "-"
                                     \o split1(seg[1], "-")[2],
                                 seg[2] \o " " \o m[Len(m)][2]>>]]
    ELSE [raised |-> FALSE, merged |-> Append(m, seg)]

\* One iteration of the for loop with local list m and loop item seg.
\* raised is TRUE when the iteration raises (the unpacking of line 13 gets
\* one piece, or line 14 indexes piece [1] of a one-piece list).
MergeStep(m, seg) ==
    LET timerange == seg[1]
        text      == seg[2]
    IN  IF text # "" /\ islower(CharAt(text, 1)) /\ m # <<>>
        THEN LET prev_range  == m[Len(m)][1]
                 prev_text   == m[Len(m)][2]
                 prev_pieces == split1(prev_range, "-")
                 cur_pieces  == split1(timerange, "-")
             IN  IF Len(prev_pieces) # 2 \/ Len(cur_pieces) < 2
                 THEN [raised |-> TRUE, merged |-> m]
                 ELSE LET start_prev == prev_pieces[1]
                          end_curr   == cur_pieces[2]
                          new_range  == start_prev \o "-" \o end_curr
                          new_text   == prev_text \o " " \o text
                      IN  [raised |-> FALSE,
                           merged |-> [m EXCEPT ![Len(m)] =
                                           <<new_range, new_text>>]]
        ELSE [raised |-> FALSE, merged |-> Append(m, seg)]

RECURSIVE MergeFrom(_, _, _)
MergeFrom(segs, i, m) ==
    IF i > Len(segs) THEN [raised |-> FALSE, merged |-> m]
    ELSE LET r == MergeStep(m, segs[i])
         IN  IF r.raised THEN r ELSE MergeFrom(segs, i + 1, r.merged)

\* The whole function: the loop from an empty list.
merge_segments(segs) == MergeFrom(segs, 1, <<>>)

---------------------------------------------------------------------------
(* More str primitives, used by the loader and by the patterns.            *)

\* Whitespace as str.strip() understands it (ASCII).
isspace(c) == c \in {" ", "\t", "\n", "\r"}

RECURSIVE lstrip(_)
lstrip(s) == IF s # "" /\ isspace(Head(s)) THEN lstrip(Tail(s)) ELSE s

RECURSIVE rstrip(_)
rstrip(s) ==
    IF s # "" /\ isspace(CharAt(s, Len(s)))
    THEN rstrip(SubSeq(s, 1, Len(s) - 1))
    ELSE s

strip(s) == rstrip(lstrip(s))

LowerOf == [c \in UpperSet |-> CharAt(LowerAlpha, PosIn(c, UpperAlpha))]

lowerchar(c) == IF c \in UpperSet THEN LowerOf[c] ELSE c

\* str.lower() (ASCII).
RECURSIVE lower(_)
lower(s) == IF s = "" THEN "" ELSE lowerchar(Head(s)) \o lower(Tail(s))

\* The regular-expression class \w (ASCII).
WordSet == LowerSet \cup UpperSet \cup DigitSet \cup {"_"}

isword(c) == c \in WordSet

---------------------------------------------------------------------------
(* Compiled patterns.  A pattern is [alts, ignorecase]: the literal        *)
(* strings its alternation can match (makes? stands for make and makes)    *)
(* and its IGNORECASE flag.                                                *)

\* \b at the gap after character g of s (g = 0: before the first one).
WordBoundary(s, g) ==
    (g >= 1 /\ isword(CharAt(s, g))) # (g < Len(s) /\ isword(CharAt(s, g + 1)))

\* The literal w matches s from position i on.
LiteralAt(s, i, w, ignorecase) ==
    /\ i + Len(w) - 1 <= Len(s)
    /\ LET t == SubSeq(s, i, i + Len(w) - 1)
       IN  IF ignorecase THEN lower(t) = lower(w) ELSE t = w

\* pattern.search(s) for a pattern of the shape \b(alt|alt|...)\b.
WordPatternSearch(p, s) ==
    \E i \in 1..Len(s) :
        /\ WordBoundary(s, i - 1)
        /\ \E w \in p.alts :
               /\ LiteralAt(s, i, w, p.ignorecase)
               /\ WordBoundary(s, i + Len(w) - 1)

\* pattern.match(s) for a pattern of the shape ^(alt|alt|...).
PrefixPatternMatch(p, s) ==
    \E w \in p.alts : LiteralAt(s, 1, w, p.ignorecase)

VERB_PATTERN ==
    [alts |-> {"lose", "gain", "burn", "get", "make", "makes", "is", "will",
               "can", "do"},
     ignorecase |-> TRUE]

INTRO_PATTERN ==
    [alts |-> {"one of", "that's", "thats", "my name"}, ignorecase |-> TRUE]

\* Faulty variant of is_strong_claim: the intro test is left out.
is_strong_claim_no_intro(s) == WordPatternSearch(VERB_PATTERN, lower(s))

is_strong_claim(s) ==
    LET sent_l == lower(s)
    IN  IF PrefixPatternMatch(INTRO_PATTERN, sent_l)
        THEN FALSE
        ELSE WordPatternSearch(VERB_PATTERN, sent_l)

---------------------------------------------------------------------------
(* load_transcript.                                                        *)

\* Faulty variants of LoadStep.  A line without ':' is skipped instead of raising.
LoadStepSkipsBad(segs, rawline) ==
    LET pieces == split1(strip(rawline), ":")
    IN  IF strip(rawline) = "" \/ Len(pieces) # 2
        THEN [raised |-> FALSE, segments |-> segs]
        ELSE [raised |-> FALSE,
              segments |-> Append(segs, <<strip(pieces[1]), strip(pieces[2])>>)]

\* The two parts are kept as split, without strip().
LoadStepNoStrip(segs, rawline) ==
    LET pieces == split1(strip(rawline), ":")
    IN  IF strip(rawline) = ""
        THEN [raised |-> FALSE, segments |-> segs]
        ELSE IF Len(pieces) # 2
        THEN [raised |-> TRUE, segments |-> segs]
        ELSE [raised |-> FALSE,
              segments |-> Append(segs, <<pieces[1], pieces[2]>>)]

\* One iteration of the loop over the lines of the file, with local list
\* segs.  raised is TRUE when the unpacking of line 47 gets one piece.
LoadStep(segs, rawline) ==
    LET line == strip(rawline)
    IN  IF line = ""
        THEN [raised |-> FALSE, segments |-> segs]
        ELSE LET pieces == split1(line, ":")
             IN  IF Len(pieces) # 2
                 THEN [raised |-> TRUE, segments |-> segs]
                 ELSE [raised |-> FALSE,
                       segments |-> Append(segs, <<strip(pieces[1]),
                                                   strip(pieces[2])>>)]

---------------------------------------------------------------------------
(* split_sentences and extract_entities.  The sentence splitter and the    *)
(* entity tagger are external: their results are inputs of the steps.      *)

\* Faulty variant of SplitOne: the append sits after the inner loop, so only the
\* last span of a segment is kept.
SplitOneLastOnly(sents, timerange, spans) ==
    IF spans = <<>> THEN sents
    ELSE Append(sents, <<timerange, spans[Len(spans)]>>)

\* The inner loop of split_sentences for one segment, spans being doc.sents.
RECURSIVE SplitOne(_, _, _)
SplitOne(sents, timerange, spans) ==
    IF spans = <<>> THEN sents
    ELSE SplitOne(Append(sents, <<timerange, Head(spans)>>), timerange,
                  Tail(spans))

\* One iteration of extract_entities, ents being the tagger's list.
TagOne(results, sentence, ents) ==
    Append(results, <<sentence[1], sentence[2], ents>>)

---------------------------------------------------------------------------
(* filter_claims.                                                          *)

DefaultAllowedLabels == {"QUANTITY", "CARDINAL", "PERCENT"}

DefaultKeywordPattern ==
    [alts |-> {"calorie", "calories", "pound", "pounds", "weight", "energy"},
     ignorecase |-> TRUE]

\* Faulty variant of filter_claims: both tests are required.
filter_claims_and(results, labels_arg, pattern_arg) ==
    LET labels  == IF labels_arg = <<>> THEN DefaultAllowedLabels
                   ELSE labels_arg[1]
        pattern == IF pattern_arg = <<>> THEN DefaultKeywordPattern
                   ELSE pattern_arg[1]
        Keep(r) ==
            /\ \E i \in 1..Len(r[3]) : r[3][i][2] \in labels
            /\ WordPatternSearch(pattern, r[2])
    IN  SelectSeq(results, Keep)

filter_claims(results, labels_arg, pattern_arg) ==
    LET labels  == IF labels_arg = <<>> THEN DefaultAllowedLabels
                   ELSE labels_arg[1]
        pattern == IF pattern_arg = <<>> THEN DefaultKeywordPattern
                   ELSE pattern_arg[1]
        Keep(r) ==
            LET ents        == r[3]
                has_numeric == \E i \in 1..Len(ents) : ents[i][2] \in labels
                has_keyword == WordPatternSearch(pattern, r[2])
            IN  has_numeric \/ has_keyword
    IN  SelectSeq(results, Keep)

\* The list comprehension of the driver (lines 122-125).
StrongOnly(cs) ==
    LET Test(c) == is_strong_claim(c[2])
    IN  SelectSeq(cs, Test)

---------------------------------------------------------------------------
(* transcribe_audio: the line written for one recognised segment.  Times   *)
(* are in tenths of a second, the resolution of the :.1f format.           *)

RECURSIVE DecStr(_)
DecStr(n) ==
    IF n < 10 THEN CharAt(DigitChars, n + 1)
    ELSE DecStr(n \div 10) \o CharAt(DigitChars, (n % 10) + 1)

Fmt1(t) == DecStr(t \div 10) \o "." \o DecStr(t % 10)

FormatRange(start, end) == Fmt1(start) \o "-" \o Fmt1(end)

TranscriptLine(seg) == FormatRange(seg.start, seg.end) \o ": " \o seg.text

---------------------------------------------------------------------------
(* The external collaborators.  The splitter may cut a text after any      *)
(* sentence-ending mark that a space follows, and returns no span for a    *)
(* blank text; the tagger may return any of a few entity lists.            *)

CutPoints(text) ==
    {i \in 1..(Len(text) - 1) :
        CharAt(text, i) \in {".", "?", "!"} /\ CharAt(text, i + 1) = " "}

RECURSIVE PiecesAt(_, _)
PiecesAt(text, cuts) ==
    IF cuts = {} THEN <<strip(text)>>
    ELSE LET c == CHOOSE x \in cuts : \A y \in cuts : x <= y
         IN  <<strip(SubSeq(text, 1, c))>>
             \o PiecesAt(SubSeq(text, c + 1, Len(text)),
                         {d - c : d \in cuts \ {c}})

SentenceSplits(text) ==
    IF strip(text) = "" THEN {<<>>}
    ELSE {PiecesAt(text, cuts) : cuts \in SUBSET CutPoints(text)}

TaggerResults ==
    {<<>>, << <<"200", "CARDINAL">> >>, << <<"Bob", "PERSON">> >>}

---------------------------------------------------------------------------
(* Inputs.                                                                 *)

\* What the recogniser hands to transcribe_audio.
WhisperSegments ==
    {[start |-> 0,   end |-> 20,  text |-> " You can burn 200 calories. That's it."],
     [start |-> 20,  end |-> 100, text |-> " and you lose weight"],
     [start |-> 100, end |-> 125, text |-> " My name is Bob."]}

\* Lines of transcript.txt: written by transcribe_audio, or edited by hand.
PipelineLines ==
    {TranscriptLine(w) : w \in WhisperSegments}
    \cup {"  ", "not a valid line", "12.5-13.0: Note: it is 5:30",
          "Aside: um"}

\* Lines for the loader alone.
LoadLines ==
    {"", " \t", "a", "no colon ", ":", " 1-2 : b ", "1-2:b:c", "1-2::",
     "\t1-2:  ", " : x", "1-2 :we do", " 1-2 : b:c "}

MergeTimes == {20, 100}

MergeRanges ==
    {FormatRange(s, e) : s \in MergeTimes, e \in MergeTimes} \cup {"10.0"}

MergeTexts == {"", "so", "We", "9 am"}

MergeItems == {<<r, t>> : r \in MergeRanges, t \in MergeTexts}

FilterSents ==
    {"You burn Calories", "calorie", "pounds. ok", "weightless",
     "nothing here", "energy_bar"}

FilterEntityLists ==
    {<<>>, << <<"200", "CARDINAL">> >>, << <<"Bob", "PERSON">> >>,
     << <<"Bob", "PERSON">>, <<"5%", "PERCENT">> >>}

FilterItems ==
    {<<"0.0-2.0", s, e>> : s \in FilterSents, e \in FilterEntityLists}

FilterLabelArgs == {<<>>, <<{}>>, <<{"PERSON"}>>}

FilterPatternArgs ==
    {<<>>, <<[alts |-> {"Bob", "here"}, ignorecase |-> FALSE]>>}

StrongPhrases ==
    {"", "That's", "THATS", "one of", "One offer", "my name", "My names",
     "is", "IS", "this", "can't", "do_it", "Makes", "maker", "will.", "the"}

RECURSIVE JoinWords(_)
JoinWords(ws) ==
    IF ws = <<>> THEN ""
    ELSE IF Len(ws) = 1 THEN ws[1]
    ELSE ws[1] \o " " \o JoinWords(Tail(ws))

StrongSents == {JoinWords(ws) : ws \in SeqsUpTo(StrongPhrases, MaxWords)}

---------------------------------------------------------------------------
(* Initial states.                                                         *)

\* The driver, before line 104.
Init ==
    /\ pc = "load"
    /\ file \in SeqsUpTo(PipelineLines, MaxLines)
    /\ idx = 0
    /\ loaded = <<>>
    /\ segments = <<>>
    /\ merged = <<>>
    /\ remerged = <<>>
    /\ docs = <<>>
    /\ sentences = <<>>
    /\ entity_results = <<>>
    /\ allowed_labels = <<>>
    /\ keyword_pattern = <<>>
    /\ claims = <<>>
    /\ final_claims = <<>>
    /\ sent = ""
    /\ strong = <<>>

---------------------------------------------------------------------------
(* Steps.                                                                  *)

\* load_transcript: one line read and kept or skipped.
LoadLine ==
    /\ pc = "load"
    /\ idx < Len(file)
    /\ LET r == LoadStep(loaded, file[idx + 1])
       IN  /\ ~r.raised
           /\ loaded' = r.segments
    /\ idx' = idx + 1
    /\ UNCHANGED <<pc, file, segments, merged, remerged, docs, sentences,
                   entity_results, allowed_labels, keyword_pattern, claims,
                   final_claims, sent, strong>>

\* load_transcript raises; nothing catches it and the program ends.
LoadRaise ==
    /\ pc = "load"
    /\ idx < Len(file)
    /\ LoadStep(loaded, file[idx + 1]).raised
    /\ pc' = "error"
    /\ UNCHANGED <<file, idx, loaded, segments, merged, remerged, docs,
                   sentences, entity_results, allowed_labels, keyword_pattern,
                   claims, final_claims, sent, strong>>

\* load_transcript returns its list (line 49) and line 104 binds it.
LoadReturn ==
    /\ pc = "load"
    /\ idx = Len(file)
    /\ segments' = loaded
    /\ pc' = "merge"
    /\ idx' = 0
    /\ UNCHANGED <<file, loaded, merged, remerged, docs, sentences,
                   entity_results, allowed_labels, keyword_pattern, claims,
                   final_claims, sent, strong>>

\* merge_segments: one iteration of its loop.
MergeIter ==
    /\ pc = "merge"
    /\ idx < Len(segments)
    /\ LET r == MergeStep(merged, segments[idx + 1])
       IN  /\ ~r.raised
           /\ merged' = r.merged
    /\ idx' = idx + 1
    /\ UNCHANGED <<pc, file, loaded, segments, remerged, docs, sentences,
                   entity_results, allowed_labels, keyword_pattern, claims,
                   final_claims, sent, strong>>

\* merge_segments raises on a range without '-'; nothing catches it.
MergeRaise ==
    /\ pc = "merge"
    /\ idx < Len(segments)
    /\ MergeStep(merged, segments[idx + 1]).raised
    /\ pc' = "error"
    /\ UNCHANGED <<file, idx, loaded, segments, merged, remerged, docs,
                   sentences, entity_results, allowed_labels, keyword_pattern,
                   claims, final_claims, sent, strong>>

\* merge_segments returns `merged` (line 20).
MergeReturn ==
    /\ pc = "merge"
    /\ idx = Len(segments)
    /\ pc' = "split"
    /\ idx' = 0
    /\ UNCHANGED <<file, loaded, segments, merged, remerged, docs, sentences,
                   entity_results, allowed_labels, keyword_pattern, claims,
                   final_claims, sent, strong>>

\* merge_segments applied to its own result.
Remerge ==
    /\ pc = "split"
    /\ remerged = <<>>
    /\ remerged' = <<merge_segments(merged)>>
    /\ UNCHANGED <<pc, file, idx, loaded, segments, merged, docs, sentences,
                   entity_results, allowed_labels, keyword_pattern, claims,
                   final_claims, sent, strong>>

\* split_sentences: one segment split by the external splitter.
SplitSegment ==
    /\ pc = "split"
    /\ idx < Len(merged)
    /\ \E spans \in SentenceSplits(merged[idx + 1][2]) :
           /\ docs' = Append(docs, spans)
           /\ sentences' = SplitOne(sentences, merged[idx + 1][1], spans)
    /\ idx' = idx + 1
    /\ UNCHANGED <<pc, file, loaded, segments, merged, remerged,
                   entity_results, allowed_labels, keyword_pattern, claims,
                   final_claims, sent, strong>>

SplitReturn ==
    /\ pc = "split"
    /\ idx = Len(merged)
    /\ pc' = "tag"
    /\ idx' = 0
    /\ UNCHANGED <<file, loaded, segments, merged, remerged, docs, sentences,
                   entity_results, allowed_labels, keyword_pattern, claims,
                   final_claims, sent, strong>>

\* extract_entities: one sentence tagged by the external tagger.
TagSentence ==
    /\ pc = "tag"
    /\ idx < Len(sentences)
    /\ \E ents \in TaggerResults :
           entity_results' = TagOne(entity_results, sentences[idx + 1], ents)
    /\ idx' = idx + 1
    /\ UNCHANGED <<pc, file, loaded, segments, merged, remerged, docs,
                   sentences, allowed_labels, keyword_pattern, claims,
                   final_claims, sent, strong>>

TagReturn ==
    /\ pc = "tag"
    /\ idx = Len(sentences)
    /\ pc' = "filter"
    /\ idx' = 0
    /\ UNCHANGED <<file, loaded, segments, merged, remerged, docs, sentences,
                   entity_results, allowed_labels, keyword_pattern, claims,
                   final_claims, sent, strong>>

\* The call of filter_claims (line 119 passes no optional argument).
FilterClaims ==
    /\ pc = "filter"
    /\ claims' = filter_claims(entity_results, allowed_labels, keyword_pattern)
    /\ pc' = "final"
    /\ UNCHANGED <<file, idx, loaded, segments, merged, remerged, docs,
                   sentences, entity_results, allowed_labels, keyword_pattern,
                   final_claims, sent, strong>>

\* Faulty variant of FinalClaims: the comprehension reads entity_results.
FinalClaimsFromAll ==
    /\ pc = "final"
    /\ final_claims' = StrongOnly(entity_results)
    /\ pc' = "done"
    /\ UNCHANGED <<file, idx, loaded, segments, merged, remerged, docs,
                   sentences, entity_results, allowed_labels, keyword_pattern,
                   claims, sent, strong>>

\* The high-precision comprehension (lines 122-125).
FinalClaims ==
    /\ pc = "final"
    /\ final_claims' = StrongOnly(claims)
    /\ pc' = "done"
    /\ UNCHANGED <<file, idx, loaded, segments, merged, remerged, docs,
                   sentences, entity_results, allowed_labels, keyword_pattern,
                   claims, sent, strong>>

\* A call of is_strong_claim.
IsStrongClaim ==
    /\ pc = "strong"
    /\ strong' = <<is_strong_claim(sent)>>
    /\ pc' = "done"
    /\ UNCHANGED <<file, idx, loaded, segments, merged, remerged, docs,
                   sentences, entity_results, allowed_labels, keyword_pattern,
                   claims, final_claims, sent>>

---------------------------------------------------------------------------
(* Specifications.                                                         *)

\* The driver run on a transcript file.
Next ==
    \/ LoadLine
    \/ LoadRaise
    \/ LoadReturn
    \/ MergeIter
    \/ MergeRaise
    \/ MergeReturn
    \/ SplitSegment
    \/ SplitReturn
    \/ TagSentence
    \/ TagReturn
    \/ FilterClaims
    \/ FinalClaims

Spec == Init /\ [][Next]_vars

\* load_transcript on any file.
InitLoad ==
    /\ pc = "load"
    /\ file \in SeqsUpTo(LoadLines, MaxLines)
    /\ idx = 0
    /\ loaded = <<>>
    /\ segments = <<>>
    /\ merged = <<>>
    /\ remerged = <<>>
    /\ docs = <<>>
    /\ sentences = <<>>
    /\ entity_results = <<>>
    /\ allowed_labels = <<>>
    /\ keyword_pattern = <<>>
    /\ claims = <<>>
    /\ final_claims = <<>>
    /\ sent = ""
    /\ strong = <<>>

NextLoad == LoadLine \/ LoadRaise \/ LoadReturn

SpecLoad == InitLoad /\ [][NextLoad]_vars

\* merge_segments on any list of segments.
InitMerge ==
    /\ pc = "merge"
    /\ segments \in SeqsUpTo(MergeItems, MaxSegs)
    /\ file = <<>>
    /\ idx = 0
    /\ loaded = <<>>
    /\ merged = <<>>
    /\ remerged = <<>>
    /\ docs = <<>>
    /\ sentences = <<>>
    /\ entity_results = <<>>
    /\ allowed_labels = <<>>
    /\ keyword_pattern = <<>>
    /\ claims = <<>>
    /\ final_claims = <<>>
    /\ sent = ""
    /\ strong = <<>>

NextMerge == MergeIter \/ MergeRaise \/ MergeReturn \/ Remerge

SpecMerge == InitMerge /\ [][NextMerge]_vars

\* filter_claims on any tagged sentences and optional arguments.
InitFilter ==
    /\ pc = "filter"
    /\ entity_results \in SeqsUpTo(FilterItems, MaxTagged)
    /\ allowed_labels \in FilterLabelArgs
    /\ keyword_pattern \in FilterPatternArgs
    /\ file = <<>>
    /\ idx = 0
    /\ loaded = <<>>
    /\ segments = <<>>
    /\ merged = <<>>
    /\ remerged = <<>>
    /\ docs = <<>>
    /\ sentences = <<>>
    /\ claims = <<>>
    /\ final_claims = <<>>
    /\ sent = ""
    /\ strong = <<>>

NextFilter == FilterClaims

SpecFilter == InitFilter /\ [][NextFilter]_vars

\* is_strong_claim on any sentence.
InitStrong ==
    /\ pc = "strong"
    /\ sent \in StrongSents
    /\ file = <<>>
    /\ idx = 0
    /\ loaded = <<>>
    /\ segments = <<>>
    /\ merged = <<>>
    /\ remerged = <<>>
    /\ docs = <<>>
    /\ sentences = <<>>
    /\ entity_results = <<>>
    /\ allowed_labels = <<>>
    /\ keyword_pattern = <<>>
    /\ claims = <<>>
    /\ final_claims = <<>>
    /\ strong = <<>>

NextStrong == IsStrongClaim

SpecStrong == InitStrong /\ [][NextStrong]_vars

---------------------------------------------------------------------------
(* Vocabulary of the properties: ranges and texts as the specification     *)
(* speaks of them.                                                         *)

\* Position of the first '-' of r, 0 when r has none.
FirstDash(r) ==
    IF \E i \in 1..Len(r) : CharAt(r, i) = "-"
    THEN CHOOSE i \in 1..Len(r) :
             CharAt(r, i) = "-" /\ \A j \in 1..(i - 1) : CharAt(r, j) # "-"
    ELSE 0

HasDash(r) == FirstDash(r) > 0
RangeStart(r) == SubSeq(r, 1, FirstDash(r) - 1)
RangeEnd(r) == SubSeq(r, FirstDash(r) + 1, Len(r))

AllDashed(segs) == \A i \in 1..Len(segs) : HasDash(segs[i][1])

StartsLower(t) == Len(t) > 0 /\ CharAt(t, 1) \in LowerSet

\* Segment i continues its predecessor: it is not the first one and its
\* text begins with a lowercase letter.
Continues(segs, i) == i > 1 /\ StartsLower(segs[i][2])

\* The segments that open an output segment.
Heads(segs) == {i \in 1..Len(segs) : ~Continues(segs, i)}

\* The last segment of the run that head h opens.
RunEnd(segs, h) ==
    CHOOSE l \in h..Len(segs) :
        /\ \A i \in (h + 1)..l : Continues(segs, i)
        /\ l = Len(segs) \/ ~Continues(segs, l + 1)

RECURSIVE JoinTexts(_, _, _)
JoinTexts(segs, h, l) ==
    IF h = l THEN segs[h][2]
    ELSE JoinTexts(segs, h, l - 1) \o " " \o segs[l][2]

\* The output segment of the run that head h opens.
RunSegment(segs, h) ==
    LET l == RunEnd(segs, h)
    IN  IF l = h THEN segs[h]
        ELSE <<RangeStart(segs[h][1]) \o "-" \o RangeEnd(segs[l][1]),
               JoinTexts(segs, h, l)>>

KthOf(S, k) == CHOOSE x \in S : Cardinality({y \in S : y <= x}) = k

\* One output segment per run, in order.
Cascade(segs) ==
    [k \in 1..Cardinality(Heads(segs)) |-> RunSegment(segs, KthOf(Heads(segs), k))]

Prefix(seq, n) == SubSeq(seq, 1, n)

\* A time written with one decimal digit, in tenths of a second.
RECURSIVE DecVal(_)
DecVal(s) ==
    IF s = "" THEN 0
    ELSE 10 * DecVal(SubSeq(s, 1, Len(s) - 1))
         + (PosIn(CharAt(s, Len(s)), DigitChars) - 1)

Tenths(s) ==
    LET p == FindFrom(s, ".", 1)
    IN  10 * DecVal(SubSeq(s, 1, p - 1)) + DecVal(SubSeq(s, p + 1, Len(s)))

StartTime(r) == Tenths(RangeStart(r))
EndTime(r) == Tenths(RangeEnd(r))

\* Every range has a start no later than its end.
EachRangeOrdered(segs) ==
    \A i \in 1..Len(segs) :
        HasDash(segs[i][1]) /\ StartTime(segs[i][1]) <= EndTime(segs[i][1])

\* The segments come in chronological order.
Chronological(segs) ==
    \A i \in 2..Len(segs) :
        /\ StartTime(segs[i - 1][1]) <= StartTime(segs[i][1])
        /\ EndTime(segs[i - 1][1]) <= EndTime(segs[i][1])

\* A step of merge_segments that folds the current segment.
IsFold ==
    /\ pc = "merge"
    /\ pc' = "merge"
    /\ idx' = idx + 1
    /\ Len(merged') = Len(merged)

\* The folded range neither starts later nor ends earlier than the range
\* it replaces, and covers the current segment's range.
FoldGrows ==
    LET old == merged[Len(merged)][1]
        new == merged'[Len(merged)][1]
        cur == segments[idx + 1][1]
    IN  /\ StartTime(new) <= StartTime(old)
        /\ EndTime(new) >= EndTime(old)
        /\ StartTime(new) <= StartTime(cur)
        /\ EndTime(new) >= EndTime(cur)

---------------------------------------------------------------------------
(* Properties of merge_segments, under SpecMerge.                          *)

\* C1: merge_segments returns one output segment per run of segments (a
\* run is a segment that is first, empty or not lowercase-initial, with
\* the lowercase-initial segments that follow it): the run's head
\* unchanged when the run is that segment alone, else the start of the
\* head's range, '-', the end of the last range, and the texts joined by
\* single spaces.  It holds of every prefix during the pass, and the pass
\* raises on no input whose ranges all hold a '-'.
C1_MergeCascades ==
    /\ pc = "merge" => merged = Cascade(Prefix(segments, idx))
    /\ pc = "split" => merged = Cascade(segments)
    /\ AllDashed(segments) => pc # "error"

C1_Witness ==
    /\ pc = "split"
    /\ Len(segments) = 3
    /\ merged = << <<"2.0-10.0", "so so so">> >>

\* C2 as stated: with every range ordered (start <= end), every fold
\* yields a range that does not shrink and covers the current segment.
C2_FoldNeverShrinks ==
    [][(IsFold /\ EachRangeOrdered(segments)) => FoldGrows]_vars

\* C2 amended: the same, for segments that also come in chronological
\* order (no start and no end earlier than the previous segment's).
C2_FoldNeverShrinksChronological ==
    [][(IsFold /\ EachRangeOrdered(segments) /\ Chronological(segments))
           => FoldGrows]_vars

C2_Witness ==
    /\ pc = "split"
    /\ segments = << <<"2.0-2.0", "We">>, <<"2.0-10.0", "so">>,
                     <<"10.0-10.0", "so">> >>
    /\ merged = << <<"2.0-10.0", "We so so">> >>

\* C9: every step of the pass consumes exactly one input segment and
\* either appends it or rewrites the last output segment only, leaving
\* every earlier output segment as it was; the pass returns after as many
\* steps as there are input segments, and it can end otherwise only by
\* raising on a range without '-'.
C9_SinglePass ==
    [][pc = "merge" =>
          \/ /\ pc' = "merge"
             /\ idx < Len(segments)
             /\ idx' = idx + 1
             /\ \/ merged' = Append(merged, segments[idx + 1])
                \/ /\ merged # <<>>
                   /\ Len(merged') = Len(merged)
                   /\ \A j \in 1..(Len(merged) - 1) : merged'[j] = merged[j]
          \/ /\ pc' = "split"
             /\ idx = Len(segments)
             /\ merged' = merged
          \/ /\ pc' = "error"
             /\ ~AllDashed(segments)
             /\ merged' = merged]_vars

C9_Witness ==
    /\ pc = "split"
    /\ Len(segments) = 3
    /\ Len(merged) = 2
    /\ merged[1][2] = "We so"

\* C10: merge_segments applied to its own result returns that result, and
\* after a pass only the first output segment can begin with a lowercase
\* letter.
C10_MergeIdempotent ==
    /\ remerged # <<>> =>
           ~remerged[1].raised /\ remerged[1].merged = merged
    /\ pc = "split" =>
           \A k \in 2..Len(merged) : ~StartsLower(merged[k][2])

C10_Witness ==
    /\ remerged # <<>>
    /\ Len(segments) = 3
    /\ segments[1][2] = "so"
    /\ segments[2][2] = ""
    /\ Len(merged) = 2

---------------------------------------------------------------------------
(* Vocabulary of the properties: subsequences, lines and words.            *)

\* The subsequence of seq at the positions S, in order.
Sub(seq, S) == [k \in 1..Cardinality(S) |-> seq[KthOf(S, k)]]

IsBlank(line) == \A i \in 1..Len(line) : isspace(CharAt(line, i))

HasColon(line) == \E i \in 1..Len(line) : CharAt(line, i) = ":"

FirstColon(line) ==
    CHOOSE i \in 1..Len(line) :
        CharAt(line, i) = ":" /\ \A j \in 1..(i - 1) : CharAt(line, j) # ":"

\* s without its leading and trailing whitespace.
Trim(s) ==
    IF IsBlank(s) THEN ""
    ELSE LET inked == {i \in 1..Len(s) : ~isspace(CharAt(s, i))}
             a == CHOOSE i \in inked : \A j \in inked : i <= j
             b == CHOOSE i \in inked : \A j \in inked : j <= i
         IN  SubSeq(s, a, b)

NonBlankLines(f) == {i \in 1..Len(f) : ~IsBlank(f[i])}

\* The non-blank lines that hold no ':'.
BadLines(f) == {i \in NonBlankLines(f) : ~HasColon(f[i])}

\* The segment a well-formed line stands for.
LineSegment(line) ==
    <<Trim(SubSeq(line, 1, FirstColon(line) - 1)),
      Trim(SubSeq(line, FirstColon(line) + 1, Len(line)))>>

LineSegments(f) ==
    [k \in 1..Cardinality(NonBlankLines(f)) |->
        LineSegment(f[KthOf(NonBlankLines(f), k)])]

\* The words of s: its maximal runs of word characters, lowercased.
WholeWords(s) ==
    LET n == Len(s)
        runs == {r \in (1..n) \X (1..n) :
                    /\ r[1] <= r[2]
                    /\ \A i \in r[1]..r[2] : isword(CharAt(s, i))
                    /\ r[1] = 1 \/ ~isword(CharAt(s, r[1] - 1))
                    /\ r[2] = n \/ ~isword(CharAt(s, r[2] + 1))}
    IN  {lower(SubSeq(s, r[1], r[2])) : r \in runs}

AssertionVerbs ==
    {"lose", "gain", "burn", "get", "make", "makes", "is", "will", "can", "do"}

IntroPhrases == {"one of", "that's", "thats", "my name"}

StartsWith(s, p) == Len(p) <= Len(s) /\ SubSeq(s, 1, Len(p)) = p

\* The label set and the pattern filter_claims works with.
LabelsInUse ==
    IF allowed_labels = <<>> THEN {"QUANTITY", "CARDINAL", "PERCENT"}
    ELSE allowed_labels[1]

PatternInUse ==
    IF keyword_pattern = <<>> THEN DefaultKeywordPattern
    ELSE keyword_pattern[1]

HasAllowedEntity(r) == \E i \in 1..Len(r[3]) : r[3][i][2] \in LabelsInUse

MatchesKeyword(r) == WordPatternSearch(PatternInUse, r[2])

\* Number of spans the splitter returned for the first n segments.
RECURSIVE SpanCount(_, _)
SpanCount(d, n) == IF n = 0 THEN 0 ELSE SpanCount(d, n - 1) + Len(d[n])

---------------------------------------------------------------------------
(* Properties of filter_claims (SpecFilter) and is_strong_claim            *)
(* (SpecStrong).                                                           *)

\* C3: filter_claims returns, unchanged and in input order, exactly the
\* tagged sentences that have an entity with an allowed label or whose
\* text matches the keyword pattern; with the empty label set, exactly
\* those whose text matches the keyword pattern.
C3_FilterIsOr ==
    pc = "final" =>
        /\ claims = Sub(entity_results,
                        {i \in 1..Len(entity_results) :
                            \/ HasAllowedEntity(entity_results[i])
                            \/ MatchesKeyword(entity_results[i])})
        /\ allowed_labels = <<{}>> =>
               claims = Sub(entity_results,
                            {i \in 1..Len(entity_results) :
                                MatchesKeyword(entity_results[i])})

C3_Witness ==
    /\ pc = "final"
    /\ allowed_labels = <<>>
    /\ keyword_pattern = <<>>
    /\ entity_results =
           << <<"0.0-2.0", "nothing here", << <<"Bob", "PERSON">> >> >>,
              <<"0.0-2.0", "You burn Calories", <<>> >> >>
    /\ claims = << <<"0.0-2.0", "You burn Calories", <<>> >> >>

\* C4: is_strong_claim is false when the lowercased sentence starts with
\* an intro phrase, and otherwise true exactly when one of the sentence's
\* words is an assertion verb.
C4_StrongClaim ==
    strong # <<>> =>
        strong[1] =
            IF \E p \in IntroPhrases : StartsWith(lower(sent), p)
            THEN FALSE
            ELSE WholeWords(sent) \cap AssertionVerbs # {}

C4_Witness ==
    /\ strong = <<FALSE>>
    /\ sent = "That's IS"

---------------------------------------------------------------------------
(* Properties of load_transcript (SpecLoad) and of the driver (Spec).      *)

\* C5: when a non-blank line holds no ':', the load gets no further than
\* the first such line and ends there by raising; the driver binds no
\* segment list and runs no later stage.
C5_BadLineAborts ==
    BadLines(file) # {} =>
        LET b == CHOOSE i \in BadLines(file) : \A j \in BadLines(file) : i <= j
        IN  /\ pc \in {"load", "error"}
            /\ pc = "load" => idx < b
            /\ pc = "error" => idx = b - 1
            /\ segments = <<>>
            /\ merged = <<>>
            /\ docs = <<>>
            /\ sentences = <<>>
            /\ entity_results = <<>>
            /\ claims = <<>>
            /\ final_claims = <<>>

C5_Witness ==
    /\ pc = "error"
    /\ Len(file) = 2
    /\ loaded # <<>>
    /\ segments = <<>>

\* C6: on a file whose non-blank lines all hold a ':', the load does not
\* raise and returns one segment per non-blank line, in file order: the
\* part before the first ':' and the part after it, both trimmed.
C6_LoadParses ==
    /\ BadLines(file) = {} => pc # "error"
    /\ (pc = "load" /\ BadLines(Prefix(file, idx)) = {}) =>
           loaded = LineSegments(Prefix(file, idx))
    /\ pc = "merge" => BadLines(file) = {} /\ segments = LineSegments(file)

C6_Witness ==
    /\ pc = "merge"
    /\ file = <<" \t", " 1-2 : b:c ">>
    /\ segments = << <<"1-2", "b:c">> >>

\* C7: the final list is the subsequence of the tagged sentences that pass
\* filter_claims and is_strong_claim, unchanged and in order.
C7_FinalIsBoth ==
    pc = "done" =>
        final_claims =
            Sub(entity_results,
                {i \in 1..Len(entity_results) :
                    /\ filter_claims(<<entity_results[i]>>, <<>>, <<>>) # <<>>
                    /\ is_strong_claim(entity_results[i][2])})

C7_Witness ==
    /\ pc = "done"
    /\ Len(entity_results) = 3
    /\ Len(claims) = 2
    /\ claims[2] = entity_results[3]
    /\ final_claims = <<entity_results[1]>>

\* C8: the sentence records are, segment after segment and span after
\* span, one record per span the splitter returned, each with the range of
\* its segment; the tagged sentences repeat them one for one.
C8_SplitKeepsRange ==
    /\ Len(docs) = (IF pc = "split" THEN idx
                    ELSE IF pc \in {"load", "merge", "error"} THEN 0
                    ELSE Len(merged))
    /\ Len(sentences) = SpanCount(docs, Len(docs))
    /\ \A i \in 1..Len(docs) : \A j \in 1..Len(docs[i]) :
           sentences[SpanCount(docs, i - 1) + j] = <<merged[i][1], docs[i][j]>>
    /\ Len(entity_results) =
           (IF pc = "tag" THEN idx
            ELSE IF pc \in {"filter", "final", "done"} THEN Len(sentences)
            ELSE 0)
    /\ \A k \in 1..Len(entity_results) :
           /\ entity_results[k][1] = sentences[k][1]
           /\ entity_results[k][2] = sentences[k][2]

C8_Witness ==
    /\ pc = "filter"
    /\ Len(merged) = 2
    /\ Len(docs[1]) = 2
    /\ Len(sentences) = 3
    /\ sentences[2][1] = merged[1][1]
    /\ sentences[3][1] = merged[2][1]

====
